---- MODULE Spec2Model ----
(***************************************************************************)
(* Model of the concurrent multi-function build dispatcher of faas-cli:    *)
(* commands.build (src/commands/build.go) and the fatal error path of      *)
(* builder.ExecCommand (src/builder/exec.go).                              *)
(*                                                                         *)
(* One goroutine (the caller of build, "main") launches queueDepth worker  *)
(* goroutines, ranges over the services.Functions map and sends every      *)
(* function that is not skipped on the unbuffered workChannel.  The two    *)
(* deferred calls run in LIFO order when build reaches its end:            *)
(* close(workChannel) first, wg.Wait() second.                             *)
(*                                                                         *)
(* sync.WaitGroup is modelled by its state, a counter and a waiter count.  *)
(* Add and Done change the counter; Wait returns at once on a zero         *)
(* counter, else it registers a waiter and sleeps; the Done that brings    *)
(* the counter to zero resets the state and releases the waiter, which     *)
(* panics if it finds the state changed again when it resumes.  wg.Add(1)  *)
(* is the first statement of each worker goroutine, not a statement of     *)
(* the launch loop, so it races with the deferred wg.Wait(): all the       *)
(* outcomes of that race are behaviours of the model.  The Done that       *)
(* zeroes the counter is one step here, so the window inside it in which   *)
(* a concurrent Add panics is not a separate state; it leads to the same   *)
(* outcome (a panic) as an Add between the release and the resume.         *)
(*                                                                         *)
(* Around the dispatcher the module follows its callers: runBuild          *)
(* (src/commands/build.go), which reaches build or the single-function     *)
(* call of builder.BuildImage; doUp of the up command                      *)
(* (src/commands/fetch_templates.go), which calls the build, push and      *)
(* deploy stages; and runDeploy (src/commands/deploy.go) with its helpers  *)
(* parseMap, mergeMap, readFiles, compileEnvironment and getGatewayURL.    *)
(* Each command has a specification of its own: Spec and OptSpec start at  *)
(* the call of build, RunSpec at runBuild, UpSpec at doUp, DeploySpec at   *)
(* runDeploy.  ParseSpec applies parseMap to lists of short entries,       *)
(* WatchSpec follows the file watcher of the up command, and ZipSpec       *)
(* follows fetchTemplates through the extraction of a template archive.    *)
(***************************************************************************)
EXTENDS Integers, Sequences, FiniteSets, TLC

\* ------------------------------------------------------------- bounds
MaxFunctions == 2
MaxParallel == 2
MaxEntryLen == 3
MaxEvents == 2

\* ------------------------------------------------------------- inputs
Keys == 1..MaxFunctions
Languages == {"", "node"}
FunctionType == [SkipBuild : BOOLEAN, Language : Languages]
Workers == 0..(MaxParallel - 1)
NoKey == 0

\* the Name field of the manifest entry with key k as stack.ParseYAMLFile
\* leaves it: the parser does not fill it in, it is the empty string
ParsedName(k) == NoKey

\* the Image and Handler fields of the manifest entry with key k
Image(k) == <<"image", k>>
Handler(k) == <<"handler", k>>

\* the values of the build flags --no-cache, --squash, --shrinkwrap and of
\* the map parsed from --build-arg
BuildArgMaps == {<<>>, [NPM_VERSION |-> "0.2.2"]}
OptionSets == [nocache : BOOLEAN, squash : BOOLEAN, shrinkwrap : BOOLEAN,
               buildArgMap : BuildArgMaps]
DefaultOptions == [nocache |-> FALSE, squash |-> FALSE, shrinkwrap |-> FALSE,
                   buildArgMap |-> <<>>]

\* the values of the flags --image, --handler, --name and --lang
FlagValues == {"", "set"}
FlagSets == [image : FlagValues, handler : FlagValues,
             functionName : FlagValues, language : FlagValues]
NoFlags == [image |-> "", handler |-> "", functionName |-> "", language |-> ""]

\* the --yaml flag is absent, or the file fails to parse, or it parses to
\* a manifest without functions, or to one with functions
YamlOutcomes == {"none", "error", "empty", "functions"}

VARIABLES
    functions,    \* services.Functions: manifest key -> stack.Function
    queueDepth,   \* the parallel flag, as passed to build
    pc,           \* position of the goroutine running build
    i,            \* loop variable of the launch loop (build.go:133)
    remaining,    \* map entries the producer's range loop has not visited
    order,        \* keys in the order the range loop visited them
    sending,      \* key of the function the producer is blocked sending
    closes,       \* number of close(workChannel) calls executed
    wgCounter,    \* sync.WaitGroup counter
    wgWaiters,    \* sync.WaitGroup waiter count
    wpc,          \* position of each worker goroutine
    cur,          \* the loop variable "function" of each worker
    wlog,         \* what each worker printed / invoked, in its own order
    mlog,         \* what the producer printed
    mnames,       \* the function.Name each notice of the producer carries
    buildLog,     \* builder.BuildImage invocations, in invocation order
    failedCmds,   \* names whose external build command returned an error
    exitStatus,   \* 0 while the process runs, else the process exit status
    index,        \* the parameter "index" of each worker goroutine
    printed,      \* the indexes each worker has printed in its log lines
    invocations,  \* the arguments of the builder.BuildImage calls, in order
    opts,         \* the globals nocache, squash, shrinkwrap, buildArgMap
    yamlOutcome,  \* what the --yaml flag and stack.ParseYAMLFile gave runBuild
    pullErr,      \* whether PullTemplates returns an error
    flags,        \* the globals image, handler, functionName, language
    rbResult,     \* "pending" until runBuild returns, then what it returned
    skipPush,     \* the flag --skip-push of up
    skipDeploy,   \* the flag --skip-deploy of up
    upStage,      \* the stage doUp is in; "none" when the command is not up
    stages,       \* the stage calls of doUp and what they returned, in order
    upResult,     \* "pending" until doUp returns, then what it returned
    deployFlags,  \* the globals update, replace, gateway, envvarOpts
    yamlGateway,  \* provider.gateway of the manifest
    dpc,          \* position of runDeploy; "none" when it does not run
    dremaining,   \* manifest entries runDeploy's range loop has not visited
    manifestRead, \* whether runDeploy has called stack.ParseYAMLFile
    dlog,         \* what runDeploy printed
    lastDeploy,   \* the arguments of the latest proxy.DeployFunction call
    deployCount,  \* number of proxy.DeployFunction calls
    constraints,  \* the global constraints (--constraint)
    gatewayURL,   \* services.Provider.GatewayURL
    parseInput,   \* the list handed to parseMap
    parseOutput,  \* what parseMap gave for it
    archive,      \* zipFile.File: the entries of the downloaded archive
    preExisting,  \* languages with a directory under template/ beforehand
    overwrite,    \* the overwrite flag
    zpos,         \* number of archive entries the extraction loop is past
    availableLanguages,  \* the map of that name in expandTemplatesFromZip
    existingLanguages,   \* the list of that name
    fetchedLanguages,    \* the list of that name
    written,      \* paths created or written under template/
    zfailed,      \* archive positions whose extraction failed
    zresult,      \* "pending", then the error value of expandTemplatesFromZip
    fetchResult,  \* "pending", then the error value of fetchTemplates
    wcount,       \* number of file-system events the watcher has handled
    lastEvent,    \* the latest event handled
    timerArmed,   \* whether a debounced call is waiting for its delay
    scheduled,    \* number of calls of debounced(...)
    buildCount    \* the counter of that name in upHandler

vars == <<functions, queueDepth, pc, i, remaining, order, sending, closes,
          wgCounter, wgWaiters, wpc, cur, wlog, mlog, mnames, buildLog, failedCmds,
          exitStatus, index, printed, invocations, opts, yamlOutcome, pullErr,
          flags, rbResult, skipPush, skipDeploy, upStage, stages, upResult,
          deployFlags, yamlGateway, dpc, dremaining, manifestRead, dlog,
          lastDeploy, deployCount, constraints, gatewayURL, parseInput,
          parseOutput, archive, preExisting, overwrite, zpos,
          availableLanguages, existingLanguages, fetchedLanguages, written,
          zfailed, zresult, fetchResult, wcount, lastEvent, timerArmed,
          scheduled, buildCount>>

mainVars == <<pc, i, remaining, order, sending, closes, mlog, mnames>>
workerVars == <<wpc, cur, wlog, buildLog, index, printed, invocations>>
wgVars == <<wgCounter, wgWaiters>>
inputVars == <<functions, queueDepth, opts, yamlOutcome, pullErr, flags,
               skipPush, skipDeploy, deployFlags, yamlGateway>>
upVars == <<upStage, stages, upResult>>
deployVars == <<dpc, dremaining, manifestRead, dlog, lastDeploy, deployCount,
                constraints, gatewayURL>>
callerVars == <<rbResult, upVars, deployVars>>
parseVars == <<parseInput, parseOutput>>
zipVars == <<archive, preExisting, overwrite, zpos, availableLanguages,
             existingLanguages, fetchedLanguages, written, zfailed, zresult,
             fetchResult>>
watchVars == <<wcount, lastEvent, timerArmed, scheduled, buildCount>>
helperVars == <<parseVars, zipVars, watchVars>>

\* ------------------------------------------------------------ helpers
Running == exitStatus = 0

closed == closes > 0

Event(kind, name) == [kind |-> kind, name |-> name]

Count(s, x) == Cardinality({n \in 1..Len(s) : s[n] = x})

\* ---------------------------------------------------------------- Init
\* deploy.go:38-49  the deploy flags at their defaults; an absent --gateway
\* leaves the variable gateway at defaultGateway
defaultGateway == "http://127.0.0.1:8080"

NoGatewayFlag == [given |-> FALSE, value |-> defaultGateway]

DefaultDeployFlags ==
    [update |-> FALSE, replace |-> TRUE, gateway |-> NoGatewayFlag,
     envvarOpts |-> <<>>]

NoDeploy == [name |-> NoKey]

NoEvent == [Op |-> {}, Name |-> <<>>, debounced |-> FALSE]

NoParse == [map |-> <<>>, err |-> "none"]

\* parseMap is not applied on its own
ParseIdle == parseInput = <<>> /\ parseOutput = NoParse

\* no archive is extracted
ZipIdle ==
    /\ archive = <<>> /\ preExisting = {} /\ overwrite = FALSE
    /\ zpos = 0
    /\ availableLanguages = <<>>
    /\ existingLanguages = <<>> /\ fetchedLanguages = <<>>
    /\ written = {} /\ zfailed = {}
    /\ zresult = "pending" /\ fetchResult = "pending"

\* the watcher of up --watch does not run
WatchIdle ==
    /\ wcount = 0 /\ lastEvent = NoEvent /\ timerArmed = FALSE
    /\ scheduled = 0 /\ buildCount = 0

\* the command is not up: doUp does not run
UpIdle ==
    /\ skipPush = FALSE /\ skipDeploy = FALSE
    /\ upStage = "none" /\ stages = <<>> /\ upResult = "pending"

\* runDeploy has not been entered
DeployIdle(position) ==
    /\ dpc = position
    /\ dremaining = Keys
    /\ manifestRead = FALSE
    /\ dlog = <<>>
    /\ lastDeploy = NoDeploy
    /\ deployCount = 0
    /\ constraints = <<"flag">>
    /\ gatewayURL = ""

Init ==
    /\ functions \in [Keys -> FunctionType]
    /\ queueDepth \in 0..MaxParallel
    /\ pc = "launch"
    /\ i = 0
    /\ remaining = Keys
    /\ order = <<>>
    /\ sending = NoKey
    /\ closes = 0
    /\ wgCounter = 0
    /\ wgWaiters = 0
    /\ wpc = [w \in Workers |-> "none"]
    /\ cur = [w \in Workers |-> NoKey]
    /\ wlog = [w \in Workers |-> <<>>]
    /\ mlog = <<>>
    /\ mnames = <<>>
    /\ buildLog = <<>>
    /\ failedCmds = {}
    /\ exitStatus = 0
    /\ index = [w \in Workers |-> -1]
    /\ printed = [w \in Workers |-> {}]
    /\ invocations = <<>>
    /\ opts = DefaultOptions
    /\ yamlOutcome = "functions"
    /\ pullErr = FALSE
    /\ flags = NoFlags
    /\ rbResult = "pending"
    /\ ParseIdle /\ ZipIdle /\ WatchIdle
    /\ UpIdle
    /\ deployFlags = DefaultDeployFlags /\ yamlGateway = ""
    /\ DeployIdle("none")

\* ------------------------------------------- decisions taken by the code
\* faulty variant: an off-by-one loop bound launches one worker too many
LaunchOneMore == i <= queueDepth

\* build.go:133  for i := 0; i < queueDepth; i++
LaunchMore == i < queueDepth

\* faulty variant: the loop may be left before every entry was visited
LoopDoneEarly(rem) == TRUE

\* build.go:151  the range loop ends when every map entry has been visited
LoopDone(rem) == rem = {}

\* faulty variant: a visited entry stays among the entries to visit
VisitKeep(rem, k) == rem

\* build.go:151  an entry is visited once: it leaves the entries still to visit
Visit(rem, k) == rem \ {k}

\* faulty variant: the skip flag is ignored
EnqueueAlways(f) == TRUE

\* build.go:152  if function.SkipBuild { print } else { send }
ShouldEnqueue(f) == ~f.SkipBuild

\* faulty variant: the language test is inverted
HasLanguageInverted(f) == f.Language = ""

\* faulty variant: the language test is dropped
HasLanguageAlways(f) == TRUE

\* build.go:138  if len(function.Language) == 0 { print } else { BuildImage }
HasLanguage(f) == f.Language # ""

\* faulty variant: the wait is dropped
WaitNeverBlocks == FALSE

\* build.go:128  wg.Wait() returns at once when the counter is zero
WaitMustBlock == wgCounter # 0

\* faulty variant: the loop body runs detached, the worker receives again
\* while it still holds a descriptor
AtReceiveOrBusy(w) == wpc[w] \in {"recv", "start", "building", "built"}

\* build.go:136  the worker is at the range statement over workChannel
AtReceive(w) == wpc[w] = "recv"

\* faulty variant: the goroutine reads the loop variable when the loop has ended
IndexCaptured == queueDepth

\* build.go:134 and 148  go func(index int) { ... }(i): the argument is the
\* value of i when the go statement runs
IndexArg == i

\* faulty variant: the no-cache option is not handed on
BuildImageArgsNoCacheDropped(img, hdl, name, lang) ==
    [image |-> img, handler |-> hdl, functionName |-> name, language |-> lang,
     nocache |-> FALSE, squash |-> opts.squash,
     shrinkwrap |-> opts.shrinkwrap, buildArgMap |-> opts.buildArgMap]

\* build.go:120 and 141  the argument list of builder.BuildImage
BuildImageArgs(img, hdl, name, lang) ==
    [image |-> img, handler |-> hdl, functionName |-> name, language |-> lang,
     nocache |-> opts.nocache, squash |-> opts.squash,
     shrinkwrap |-> opts.shrinkwrap, buildArgMap |-> opts.buildArgMap]

\* faulty variant: the error is only logged, the process goes on
LogPrintStatus == exitStatus

\* exec.go:26  log.Fatalf: os.Exit(1)
FatalStatus == 1

\* builder.BuildImage runs the external build tool through ExecCommand: the
\* call either returns or ends the process on ExecCommand's fatal path
BuildImageOutcomes == {"returns", "fatal"}

\* --------------------------------------------------- the producer (main)
\* build.go:133-149  launch one worker goroutine per iteration
Launch ==
    /\ Running /\ pc = "launch"
    /\ IF LaunchMore
       THEN /\ wpc' = [wpc EXCEPT ![i] = "created"]
            /\ index' = [index EXCEPT ![i] = IndexArg]
            /\ i' = i + 1
            /\ pc' = "launch"
       ELSE /\ pc' = "range"
            /\ UNCHANGED <<wpc, i, index>>
    /\ UNCHANGED <<remaining, order, sending, closes, mlog, mnames, cur, wlog,
                   buildLog, failedCmds, exitStatus, printed, invocations>>
    /\ UNCHANGED <<wgVars, inputVars, helperVars, callerVars>>

\* build.go:151-157  one iteration of the range loop over services.Functions;
\* Go leaves the iteration order of a map unspecified
Produce ==
    /\ Running /\ pc = "range" /\ remaining # {}
    /\ \E k \in remaining :
        /\ remaining' = Visit(remaining, k)
        /\ order' = Append(order, k)
        /\ IF ShouldEnqueue(functions[k])
           THEN /\ sending' = k
                /\ pc' = "send"
                /\ mlog' = mlog
                /\ mnames' = mnames
           ELSE /\ mlog' = Append(mlog, Event("skip", k))
                /\ mnames' = Append(mnames, ParsedName(k))
                /\ UNCHANGED <<sending, pc>>
    /\ UNCHANGED <<i, closes, failedCmds, exitStatus>>
    /\ UNCHANGED <<workerVars, wgVars, inputVars, helperVars, callerVars>>

\* build.go:131  defer close(workChannel): runs first when build ends
Close ==
    /\ Running /\ pc = "range" /\ LoopDone(remaining)
    /\ closes' = closes + 1
    /\ pc' = "wait"
    /\ UNCHANGED <<i, remaining, order, sending, mlog, mnames, failedCmds, exitStatus>>
    /\ UNCHANGED <<workerVars, wgVars, inputVars, helperVars, callerVars>>

\* build.go:128  defer wg.Wait(): runs second; returns when the counter is
\* zero, else registers as a waiter and sleeps on the semaphore
Wait ==
    /\ Running /\ pc = "wait"
    /\ IF WaitMustBlock
       THEN /\ wgWaiters' = wgWaiters + 1
            /\ pc' = "sleeping"
       ELSE /\ pc' = "returned"
            /\ UNCHANGED wgWaiters
    /\ UNCHANGED <<i, remaining, order, sending, closes, mlog, mnames, wgCounter,
                   failedCmds, exitStatus>>
    /\ UNCHANGED <<workerVars, inputVars, helperVars, callerVars>>

\* build.go:128  wg.Wait() resumes after the semaphore was released: a
\* WaitGroup whose state is no longer zero panics ("WaitGroup is reused
\* before previous Wait has returned"); the unrecovered panic ends the
\* process with status 2
WaitResume ==
    /\ Running /\ pc = "woken"
    /\ IF wgCounter # 0 \/ wgWaiters # 0
       THEN /\ exitStatus' = 2
            /\ pc' = pc
       ELSE /\ pc' = "returned"
            /\ UNCHANGED exitStatus
    /\ UNCHANGED <<i, remaining, order, sending, closes, mlog, mnames, failedCmds>>
    /\ UNCHANGED <<workerVars, wgVars, inputVars, helperVars, callerVars>>

\* ----------------------------------------------------------- the workers
\* build.go:134-135  the goroutine starts to run: wg.Add(1) is its first
\* statement, so the counter rises only when the scheduler first runs it
WgAdd(w) ==
    /\ Running /\ wpc[w] = "created"
    /\ wgCounter' = wgCounter + 1
    /\ wpc' = [wpc EXCEPT ![w] = "recv"]
    /\ UNCHANGED <<wgWaiters, cur, wlog, buildLog, failedCmds, exitStatus,
                   index, printed, invocations>>
    /\ UNCHANGED <<mainVars, inputVars, helperVars, callerVars>>

\* build.go:136-137 and 156  the unbuffered handoff: the send of the producer
\* completes in the step in which a worker receives; the worker then prints
\* its "Building" marker
Recv(w) ==
    /\ Running /\ pc = "send" /\ AtReceive(w) /\ ~closed
    /\ cur' = [cur EXCEPT ![w] = sending]
    /\ sending' = NoKey
    /\ pc' = "range"
    /\ wlog' = [wlog EXCEPT ![w] = Append(@, Event("start", sending))]
    /\ wpc' = [wpc EXCEPT ![w] = "start"]
    /\ printed' = [printed EXCEPT ![w] = @ \cup {index[w]}]
    /\ UNCHANGED <<i, remaining, order, closes, mlog, mnames, buildLog, failedCmds,
                   exitStatus, index, invocations>>
    /\ UNCHANGED <<wgVars, inputVars, helperVars, callerVars>>

\* build.go:138-142  the language check and the call of builder.BuildImage
Build(w) ==
    /\ Running /\ wpc[w] = "start"
    /\ IF HasLanguage(functions[cur[w]])
       THEN /\ buildLog' = Append(buildLog, cur[w])
            /\ invocations' = Append(invocations,
                   BuildImageArgs(Image(cur[w]), Handler(cur[w]), cur[w],
                                  functions[cur[w]].Language))
            /\ wlog' = [wlog EXCEPT ![w] = Append(@, Event("build", cur[w]))]
            /\ wpc' = [wpc EXCEPT ![w] = "building"]
       ELSE /\ wlog' = [wlog EXCEPT ![w] = Append(@, Event("nolang", cur[w]))]
            /\ wpc' = [wpc EXCEPT ![w] = "built"]
            /\ UNCHANGED <<buildLog, invocations>>
    /\ UNCHANGED <<cur, failedCmds, exitStatus, index, printed>>
    /\ UNCHANGED <<mainVars, wgVars, inputVars, helperVars, callerVars>>

\* build.go:141  builder.BuildImage returns (every external command succeeded)
BuildImageReturns(w) ==
    /\ Running /\ wpc[w] = "building"
    /\ "returns" \in BuildImageOutcomes
    /\ wpc' = [wpc EXCEPT ![w] = "built"]
    /\ UNCHANGED <<cur, wlog, buildLog, failedCmds, exitStatus, index,
                   printed, invocations>>
    /\ UNCHANGED <<mainVars, wgVars, inputVars, helperVars, callerVars>>

\* exec.go:23-27  the external build command returns an error: log.Fatalf
\* prints and ends the process, no deferred call runs
ExecCommandFails(w) ==
    /\ Running /\ wpc[w] = "building"
    /\ "fatal" \in BuildImageOutcomes
    /\ failedCmds' = failedCmds \cup {cur[w]}
    /\ exitStatus' = FatalStatus
    /\ UNCHANGED <<mainVars, workerVars, wgVars, inputVars, helperVars, callerVars>>

\* build.go:143  the "done" marker; the range statement is reached again
DoneMarker(w) ==
    /\ Running /\ wpc[w] = "built"
    /\ wlog' = [wlog EXCEPT ![w] = Append(@, Event("done", cur[w]))]
    /\ cur' = [cur EXCEPT ![w] = NoKey]
    /\ wpc' = [wpc EXCEPT ![w] = "recv"]
    /\ printed' = [printed EXCEPT ![w] = @ \cup {index[w]}]
    /\ UNCHANGED <<buildLog, failedCmds, exitStatus, index, invocations>>
    /\ UNCHANGED <<mainVars, wgVars, inputVars, helperVars, callerVars>>

\* build.go:136 and 146-147  the range over the closed channel ends, the
\* worker prints "worker done" and calls wg.Done(); the Done that brings the
\* counter to zero while a waiter sleeps resets the state and releases it
WorkerDone(w) ==
    /\ Running /\ AtReceive(w) /\ closed
    /\ wlog' = [wlog EXCEPT ![w] = Append(@, Event("workerdone", NoKey))]
    /\ wpc' = [wpc EXCEPT ![w] = "exited"]
    /\ wgCounter' = wgCounter - 1
    /\ IF wgCounter' = 0 /\ wgWaiters > 0
       THEN /\ wgWaiters' = 0
            /\ pc' = "woken"
       ELSE UNCHANGED <<wgWaiters, pc>>
    /\ printed' = [printed EXCEPT ![w] = @ \cup {index[w]}]
    /\ UNCHANGED <<i, remaining, order, sending, closes, mlog, mnames, cur, buildLog,
                   failedCmds, exitStatus, index, invocations>>
    /\ UNCHANGED <<inputVars, helperVars, callerVars>>

\* ------------------------------------------------------- specifications
Main == Launch \/ Produce \/ Close \/ Wait \/ WaitResume

WorkerOk(w) ==
    \/ WgAdd(w) \/ Recv(w) \/ Build(w) \/ BuildImageReturns(w)
    \/ DoneMarker(w) \/ WorkerDone(w)

Next ==
    \/ Launch \/ Produce \/ Close \/ Wait \/ WaitResume
    \/ \E w \in Workers :
        \/ WgAdd(w) \/ Recv(w) \/ Build(w) \/ BuildImageReturns(w)
        \/ ExecCommandFails(w) \/ DoneMarker(w) \/ WorkerDone(w)

Spec == Init /\ [][Next]_vars

\* Every external build command succeeds, and the Go scheduler runs every
\* goroutine that can take a step.
NextOk == Main \/ \E w \in Workers : WorkerOk(w)

FairSpec ==
    /\ Init /\ [][NextOk]_vars
    /\ WF_vars(Main)
    /\ \A w \in Workers : WF_vars(WorkerOk(w))

\* ------------------------------------------------------ runBuild, the caller
\* faulty variant: the handler check is missing
ConfigErrorNoHandler(fl) ==
    IF fl.image = "" THEN "image"
    ELSE IF fl.functionName = "" THEN "name"
    ELSE "none"

\* build.go:111-119  the flag checks of the single-function branch, in the
\* order of the code; "none" when every check passes
ConfigError(fl) ==
    IF fl.image = "" THEN "image"
    ELSE IF fl.handler = "" THEN "handler"
    ELSE IF fl.functionName = "" THEN "name"
    ELSE "none"

\* build.go:89-120  runBuild from its entry to the call of build or of
\* builder.BuildImage, or to the return of an error
RunBuild ==
    /\ Running /\ pc = "runBuild"
    /\ IF yamlOutcome = "error"
       THEN /\ rbResult' = "error: yaml"
            /\ pc' = "rbReturned"
            /\ UNCHANGED invocations
       ELSE IF pullErr
       THEN /\ rbResult' = "error: templates"
            /\ pc' = "rbReturned"
            /\ UNCHANGED invocations
       ELSE IF yamlOutcome = "functions"
       THEN /\ pc' = "launch"
            /\ UNCHANGED <<rbResult, invocations>>
       ELSE IF ConfigError(flags) # "none"
       THEN /\ rbResult' = "error: " \o ConfigError(flags)
            /\ pc' = "rbReturned"
            /\ UNCHANGED invocations
       ELSE /\ invocations' = Append(invocations,
                   BuildImageArgs(flags.image, flags.handler,
                                  flags.functionName, flags.language))
            /\ pc' = "single"
            /\ UNCHANGED rbResult
    /\ UNCHANGED <<i, remaining, order, sending, closes, mlog, mnames, wpc, cur, wlog,
                   buildLog, index, printed, failedCmds, exitStatus>>
    /\ UNCHANGED <<wgVars, inputVars, helperVars, upVars, deployVars>>

\* build.go:120-123  the single BuildImage call returns, runBuild returns nil
SingleBuildReturns ==
    /\ Running /\ pc = "single"
    /\ "returns" \in BuildImageOutcomes
    /\ rbResult' = "nil"
    /\ pc' = "rbReturned"
    /\ UNCHANGED <<i, remaining, order, sending, closes, mlog, mnames, failedCmds,
                   exitStatus>>
    /\ UNCHANGED <<workerVars, wgVars, inputVars, helperVars, upVars, deployVars>>

\* exec.go:23-27  the external command of the single build fails
SingleBuildFails ==
    /\ Running /\ pc = "single"
    /\ "fatal" \in BuildImageOutcomes
    /\ failedCmds' = failedCmds \cup {NoKey}
    /\ exitStatus' = FatalStatus
    /\ UNCHANGED <<mainVars, workerVars, wgVars, inputVars, helperVars, callerVars>>

\* faulty variant: a function that was not built makes runBuild return an error
ResultAggregated ==
    IF \A k \in Keys : Count(buildLog, k) = 1 THEN "nil" ELSE "error: build"

\* build.go:108 and 123  build has no result; the statement after its call
\* is return nil
ResultAfterBuild == "nil"

\* build.go:108 and 123  build has returned: runBuild returns nil
RunBuildReturns ==
    /\ Running /\ pc = "returned" /\ rbResult = "pending"
    /\ rbResult' = ResultAfterBuild
    /\ UNCHANGED <<mainVars, workerVars, wgVars, inputVars, helperVars, failedCmds,
                   exitStatus, upVars, deployVars>>

\* the build command from the entry of runBuild: a manifest with functions
\* and any value of --parallel, or no function from a manifest and any
\* combination of the single-function flags
InitRun ==
    /\ \/ /\ yamlOutcome = "functions"
          /\ functions \in [Keys -> FunctionType]
          /\ queueDepth \in -1..MaxParallel
          /\ flags = NoFlags
       \/ /\ yamlOutcome \in YamlOutcomes \ {"functions"}
          /\ functions = [k \in Keys |-> [SkipBuild |-> FALSE, Language |-> "node"]]
          /\ queueDepth = 1
          /\ flags \in FlagSets
    /\ pullErr \in BOOLEAN
    /\ opts = DefaultOptions
    /\ pc = "runBuild"
    /\ i = 0
    /\ remaining = Keys
    /\ order = <<>>
    /\ sending = NoKey
    /\ closes = 0
    /\ wgCounter = 0
    /\ wgWaiters = 0
    /\ wpc = [w \in Workers |-> "none"]
    /\ cur = [w \in Workers |-> NoKey]
    /\ wlog = [w \in Workers |-> <<>>]
    /\ mlog = <<>>
    /\ mnames = <<>>
    /\ buildLog = <<>>
    /\ failedCmds = {}
    /\ exitStatus = 0
    /\ index = [w \in Workers |-> -1]
    /\ printed = [w \in Workers |-> {}]
    /\ invocations = <<>>
    /\ rbResult = "pending"
    /\ ParseIdle /\ ZipIdle /\ WatchIdle
    /\ UpIdle
    /\ deployFlags = DefaultDeployFlags /\ yamlGateway = ""
    /\ DeployIdle("none")

NextRun ==
    \/ RunBuild \/ SingleBuildReturns \/ SingleBuildFails \/ RunBuildReturns
    \/ Launch \/ Produce \/ Close \/ Wait \/ WaitResume
    \/ \E w \in Workers :
        \/ WgAdd(w) \/ Recv(w) \/ Build(w) \/ BuildImageReturns(w)
        \/ ExecCommandFails(w) \/ DoneMarker(w) \/ WorkerDone(w)

RunSpec == InitRun /\ [][NextRun]_vars

\* ------------------------------------------------------------ doUp (up)
\* what a stage function returns to doUp: nil or an error
StageOutcomes == {"nil", "error"}

StageEvent(stage, event) == [stage |-> stage, event |-> event]

\* faulty variant: the returned error is not looked at
NextStageIgnoringError(stage, err) ==
    IF stage = "build" /\ ~skipPush THEN "push"
    ELSE IF stage \in {"build", "push"} /\ ~skipDeploy THEN "deploy"
    ELSE "done"

\* fetch_templates.go:424-439  where doUp goes when a stage has returned
NextStage(stage, err) ==
    IF err THEN "done"
    ELSE IF stage = "build" /\ ~skipPush THEN "push"
    ELSE IF stage \in {"build", "push"} /\ ~skipDeploy THEN "deploy"
    ELSE "done"

\* a stage has returned: doUp returns, or calls the stage that follows
StageReturned(stage, outcome) ==
    LET next == NextStage(stage, outcome # "nil")
    IN  /\ upStage' = next
        /\ stages' = stages \o <<StageEvent(stage, outcome)>> \o
               (IF next = "done" THEN <<>> ELSE <<StageEvent(next, "call")>>)
        /\ upResult' = IF next = "done" THEN outcome ELSE upResult

\* fetch_templates.go:418 and 424  upHandler calls doUp, doUp calls runBuild
DoUp ==
    /\ Running /\ pc = "up" /\ upStage = "start"
    /\ pc' = "runBuild"
    /\ upStage' = "build"
    /\ stages' = Append(stages, StageEvent("build", "call"))
    /\ UNCHANGED <<i, remaining, order, sending, closes, mlog, mnames, failedCmds,
                   exitStatus, rbResult, upResult>>
    /\ UNCHANGED <<workerVars, wgVars, inputVars, helperVars, deployVars>>

\* fetch_templates.go:424-427  runBuild has returned to doUp
RunBuildReturnedToUp ==
    /\ Running /\ upStage = "build" /\ rbResult # "pending"
    /\ StageReturned("build", IF rbResult = "nil" THEN "nil" ELSE "error")
    /\ UNCHANGED <<mainVars, workerVars, wgVars, inputVars, helperVars, failedCmds,
                   exitStatus, rbResult, deployVars>>

\* fetch_templates.go:429-432  runPush returns nil or an error
RunPushReturns ==
    /\ Running /\ upStage = "push"
    /\ \E outcome \in StageOutcomes : StageReturned("push", outcome)
    /\ UNCHANGED <<mainVars, workerVars, wgVars, inputVars, helperVars, failedCmds,
                   exitStatus, rbResult, deployVars>>

\* fetch_templates.go:435-437  runDeploy returns nil or an error
RunDeployReturns ==
    /\ Running /\ upStage = "deploy"
    /\ \E outcome \in StageOutcomes : StageReturned("deploy", outcome)
    /\ UNCHANGED <<mainVars, workerVars, wgVars, inputVars, helperVars, failedCmds,
                   exitStatus, rbResult, deployVars>>

\* the up command without --watch, --parallel at its default: a manifest
\* with functions, or the single-function flags
AllFlags ==
    [image |-> "set", handler |-> "set", functionName |-> "set",
     language |-> "set"]

InitUp ==
    /\ \/ /\ yamlOutcome = "functions"
          /\ functions \in [Keys -> FunctionType]
          /\ flags = NoFlags
       \/ /\ yamlOutcome \in {"none", "error"}
          /\ functions = [k \in Keys |-> [SkipBuild |-> FALSE, Language |-> "node"]]
          /\ flags \in {NoFlags, AllFlags}
    /\ queueDepth = 1
    /\ pullErr \in BOOLEAN
    /\ skipPush \in BOOLEAN
    /\ skipDeploy \in BOOLEAN
    /\ opts = DefaultOptions
    /\ pc = "up"
    /\ upStage = "start"
    /\ stages = <<>>
    /\ upResult = "pending"
    /\ i = 0
    /\ remaining = Keys
    /\ order = <<>>
    /\ sending = NoKey
    /\ closes = 0
    /\ wgCounter = 0
    /\ wgWaiters = 0
    /\ wpc = [w \in Workers |-> "none"]
    /\ cur = [w \in Workers |-> NoKey]
    /\ wlog = [w \in Workers |-> <<>>]
    /\ mlog = <<>>
    /\ mnames = <<>>
    /\ buildLog = <<>>
    /\ failedCmds = {}
    /\ exitStatus = 0
    /\ index = [w \in Workers |-> -1]
    /\ printed = [w \in Workers |-> {}]
    /\ invocations = <<>>
    /\ rbResult = "pending"
    /\ ParseIdle /\ ZipIdle /\ WatchIdle
    /\ deployFlags = DefaultDeployFlags /\ yamlGateway = ""
    /\ DeployIdle("none")

NextUp ==
    \/ DoUp \/ RunBuildReturnedToUp \/ RunPushReturns \/ RunDeployReturns
    \/ RunBuild \/ SingleBuildReturns \/ SingleBuildFails \/ RunBuildReturns
    \/ Launch \/ Produce \/ Close \/ Wait \/ WaitResume
    \/ \E w \in Workers :
        \/ WgAdd(w) \/ Recv(w) \/ Build(w) \/ BuildImageReturns(w)
        \/ ExecCommandFails(w) \/ DoneMarker(w) \/ WorkerDone(w)

UpSpec == InitUp /\ [][NextUp]_vars

\* ------------------------------------------------- runDeploy (deploy)
\* Strings that the code takes apart are sequences of characters; a
\* map[string]string is a function from names to values; the nil map and
\* the empty map are both the function with the empty domain.
EmptyMap == <<>>

EnvKeys == {<<"A">>, <<"B">>}

\* the maps a source can give: any subset of EnvKeys, each with value v
MapsTo(v) == UNION {[D -> {v}] : D \in SUBSET EnvKeys}

\* the --env lists: well formed entries (one with a space in front and a
\* second = in its value), and entries without separator, value or name
EnvOptLists ==
    {<<>>,
     <<<<"A", "=", "c">>>>,
     <<<<"B", "=", "c">>>>,
     <<<<"A", "=", "c">>, <<"B", "=", "c">>>>,
     <<<<"A", "=", "c">>, <<" ", "A", "=", "d", "=", "e">>>>,
     <<<<"A">>>>,
     <<<<"A", "=">>>>,
     <<<<"=", "c">>>>}

\* an environment_file of the manifest: readable or not, and its content
EnvFile(ok, m) == [ok |-> ok, Environment |-> m]

EnvFileLists ==
    {<<>>, <<EnvFile(FALSE, EmptyMap)>>}
    \cup {<<EnvFile(TRUE, m)>> : m \in MapsTo(<<"1">>)}
    \cup {<<EnvFile(TRUE, m), EnvFile(TRUE, n)>> :
              m \in MapsTo(<<"1">>), n \in MapsTo(<<"2">>)}

\* the --gateway flag: absent, or given with the default or another URL
GatewayFlags ==
    {NoGatewayFlag, [given |-> TRUE, value |-> defaultGateway],
     [given |-> TRUE, value |-> "http://flag:8080"]}

YamlGateways == {"", "http://yaml:8080"}

\* strings.TrimSpace, for the space character
RECURSIVE TrimLeft(_)
TrimLeft(s) == IF s # <<>> /\ Head(s) = " " THEN TrimLeft(Tail(s)) ELSE s

RECURSIVE TrimRight(_)
TrimRight(s) ==
    IF s # <<>> /\ s[Len(s)] = " " THEN TrimRight(SubSeq(s, 1, Len(s) - 1))
    ELSE s

TrimSpace(s) == TrimRight(TrimLeft(s))

\* strings.SplitN(s, "=", 2): the text before and after the first "=", or
\* the whole text alone when it holds no "="
SplitN2(s) ==
    LET at == {n \in DOMAIN s : s[n] = "="}
    IN  IF at = {} THEN <<s>>
        ELSE LET p == CHOOSE n \in at : \A m \in at : n <= m
             IN  <<SubSeq(s, 1, p - 1), SubSeq(s, p + 1, Len(s))>>

Put(m, k, v) == [x \in DOMAIN m \cup {k} |-> IF x = k THEN v ELSE m[x]]

\* deploy.go:242-259  parseMap; s[1] of a one-element split is an index out
\* of range: the run-time panic is the outcome "panic"
RECURSIVE ParseFrom(_, _, _)
ParseFrom(envvars, n, result) ==
    IF n > Len(envvars) THEN [map |-> result, err |-> "nil"]
    ELSE LET s == SplitN2(TrimSpace(envvars[n]))
         IN  IF Len(s) < 2 THEN [map |-> EmptyMap, err |-> "panic"]
             ELSE IF s[1] = <<>> THEN [map |-> EmptyMap, err |-> "error"]
             ELSE IF s[2] = <<>> THEN [map |-> EmptyMap, err |-> "error"]
             ELSE ParseFrom(envvars, n + 1, Put(result, s[1], s[2]))

parseMap(envvars) == ParseFrom(envvars, 1, EmptyMap)

\* faulty variant: the first map wins
mergeMapFirstWins(a, b) ==
    [k \in DOMAIN a \cup DOMAIN b |-> IF k \in DOMAIN a THEN a[k] ELSE b[k]]

\* deploy.go:261-271  mergeMap: the entries of the second map are written
\* over those of the first
mergeMap(a, b) ==
    [k \in DOMAIN a \cup DOMAIN b |-> IF k \in DOMAIN b THEN b[k] ELSE a[k]]

\* deploy.go:221-240  readFiles
RECURSIVE ReadFrom(_, _, _)
ReadFrom(files, n, envs) ==
    IF n > Len(files) THEN [map |-> envs, err |-> "nil"]
    ELSE IF ~files[n].ok THEN [map |-> EmptyMap, err |-> "error"]
    ELSE ReadFrom(files, n + 1, mergeMap(envs, files[n].Environment))

readFiles(files) == ReadFrom(files, 1, EmptyMap)

\* deploy.go:287-295  compileEnvironment
compileEnvironment(envvarOpts, yamlEnvironment, fileEnvironment) ==
    LET envvarArguments == parseMap(envvarOpts)
    IN  IF envvarArguments.err # "nil"
        THEN [map |-> EmptyMap, err |-> envvarArguments.err]
        ELSE [map |-> mergeMap(mergeMap(yamlEnvironment, fileEnvironment),
                               envvarArguments.map),
              err |-> "nil"]

\* deploy.go:273-285  getGatewayURL
getGatewayURL(argumentURL, defaultURL, yamlURL) ==
    IF argumentURL # "" /\ argumentURL # defaultURL THEN argumentURL
    ELSE IF yamlURL # "" THEN yamlURL
    ELSE defaultURL

\* faulty variant: the two flags are not compared
NeverConflicting == FALSE

\* deploy.go:102  if update && replace
ConflictingFlags == deployFlags.update /\ deployFlags.replace

\* the manifest entry with key 1 carries constraints of its own
FunctionConstraints(k) == IF k = 1 THEN <<"function">> ELSE <<>>

\* deploy.go:177 and 203  the arguments of proxy.DeployFunction that the
\* model follows, with the environment sources they were compiled from
DeployArgs(name, url, env, cons, inline, files) ==
    [name |-> name, gateway |-> url, env |-> env, constraints |-> cons,
     replace |-> deployFlags.replace, update |-> deployFlags.update,
     inline |-> inline, files |-> files]

\* how the process ends on an error: log.Fatalln and os.Exit(1) give status
\* 1, a run-time panic gives status 2
ErrorStatus(err) == IF err = "panic" THEN 2 ELSE FatalStatus

\* deploy.go:100-139 and 180-204  runDeploy up to its range loop, or through
\* the single-function branch
RunDeploy ==
    /\ Running /\ dpc = "runDeploy"
    /\ IF ConflictingFlags
       THEN /\ dlog' = Append(dlog, "conflict")
            /\ dpc' = "dReturned"
            /\ UNCHANGED <<manifestRead, gatewayURL, lastDeploy, deployCount,
                           exitStatus>>
       ELSE IF yamlOutcome = "error"
       THEN /\ manifestRead' = TRUE
            /\ exitStatus' = FatalStatus
            /\ UNCHANGED <<dlog, dpc, gatewayURL, lastDeploy, deployCount>>
       ELSE IF yamlOutcome = "functions"
       THEN /\ manifestRead' = TRUE
            /\ gatewayURL' = getGatewayURL(deployFlags.gateway.value,
                                           defaultGateway, yamlGateway)
            /\ dpc' = "loop"
            /\ UNCHANGED <<dlog, lastDeploy, deployCount, exitStatus>>
       ELSE /\ manifestRead' = (yamlOutcome = "empty")
            /\ gatewayURL' =
                  IF yamlOutcome = "empty"
                  THEN getGatewayURL(deployFlags.gateway.value,
                                     defaultGateway, yamlGateway)
                  ELSE gatewayURL
            /\ IF flags.image = ""
               THEN /\ dlog' = Append(dlog, "no image")
                    /\ dpc' = "dReturned"
                    /\ UNCHANGED <<lastDeploy, deployCount, exitStatus>>
               ELSE IF flags.functionName = ""
               THEN /\ dlog' = Append(dlog, "no name")
                    /\ dpc' = "dReturned"
                    /\ UNCHANGED <<lastDeploy, deployCount, exitStatus>>
               ELSE LET envvars == parseMap(deployFlags.envvarOpts)
                    IN  IF envvars.err # "nil"
                        THEN /\ exitStatus' = ErrorStatus(envvars.err)
                             /\ UNCHANGED <<dlog, dpc, lastDeploy, deployCount>>
                        ELSE /\ lastDeploy' =
                                   DeployArgs(flags.functionName,
                                              deployFlags.gateway.value,
                                              envvars.map, constraints,
                                              EmptyMap, <<>>)
                             /\ deployCount' = deployCount + 1
                             /\ dpc' = "dReturned"
                             /\ UNCHANGED <<dlog, exitStatus>>
    /\ UNCHANGED <<dremaining, constraints, failedCmds, rbResult>>
    /\ UNCHANGED <<mainVars, workerVars, wgVars, inputVars, helperVars, upVars>>

\* deploy.go:141-178  one iteration of the range loop over the functions of
\* the manifest, in the unspecified order of a Go map; the entry's inline
\* environment and environment files are whatever the manifest holds
DeployOne ==
    /\ Running /\ dpc = "loop" /\ dremaining # {}
    /\ \E k \in dremaining, inline \in MapsTo(<<"i">>), files \in EnvFileLists :
        LET cons == IF FunctionConstraints(k) # <<>>
                    THEN FunctionConstraints(k) ELSE constraints
            fileEnvironment == readFiles(files)
            allEnvironment ==
                compileEnvironment(deployFlags.envvarOpts, inline,
                                   fileEnvironment.map)
        IN  /\ dremaining' = dremaining \ {k}
            /\ constraints' = cons
            /\ IF fileEnvironment.err # "nil"
               THEN /\ exitStatus' = FatalStatus
                    /\ UNCHANGED <<lastDeploy, deployCount>>
               ELSE IF allEnvironment.err # "nil"
               THEN /\ exitStatus' = ErrorStatus(allEnvironment.err)
                    /\ UNCHANGED <<lastDeploy, deployCount>>
               ELSE /\ lastDeploy' = DeployArgs(k, gatewayURL,
                                         allEnvironment.map, cons, inline, files)
                    /\ deployCount' = deployCount + 1
                    /\ UNCHANGED exitStatus
    /\ UNCHANGED <<dpc, manifestRead, dlog, gatewayURL, failedCmds, rbResult>>
    /\ UNCHANGED <<mainVars, workerVars, wgVars, inputVars, helperVars, upVars>>

\* deploy.go:141 and 205  the range loop ends, runDeploy returns
DeployLoopEnds ==
    /\ Running /\ dpc = "loop" /\ dremaining = {}
    /\ dpc' = "dReturned"
    /\ UNCHANGED <<dremaining, manifestRead, dlog, lastDeploy, deployCount,
                   constraints, gatewayURL, failedCmds, exitStatus, rbResult>>
    /\ UNCHANGED <<mainVars, workerVars, wgVars, inputVars, helperVars, upVars>>

\* the deploy command: a manifest with functions under the combinations of
\* --update, --replace, --gateway and the manifest's gateway, or under the
\* --env lists; or no function from a manifest and the single-function flags
InitDeploy ==
    /\ \/ /\ yamlOutcome = "functions"
          /\ flags = NoFlags
          /\ deployFlags \in
                [update : BOOLEAN, replace : BOOLEAN, gateway : GatewayFlags,
                 envvarOpts : {<<>>}]
          /\ yamlGateway \in YamlGateways
       \/ /\ yamlOutcome = "functions"
          /\ flags = NoFlags
          /\ deployFlags \in
                [update : {FALSE}, replace : {TRUE}, gateway : {NoGatewayFlag},
                 envvarOpts : EnvOptLists]
          /\ yamlGateway = ""
       \/ /\ yamlOutcome \in YamlOutcomes \ {"functions"}
          /\ flags \in {NoFlags, AllFlags,
                         [NoFlags EXCEPT !.image = "set"]}
          /\ deployFlags \in
                [update : BOOLEAN, replace : BOOLEAN, gateway : GatewayFlags,
                 envvarOpts : {<<>>, <<<<"A", "=", "c">>>>, <<<<"A">>>>}]
          /\ yamlGateway \in YamlGateways
    /\ DeployIdle("runDeploy")
    /\ functions = [k \in Keys |-> [SkipBuild |-> FALSE, Language |-> "node"]]
    /\ queueDepth = 1
    /\ opts = DefaultOptions
    /\ pullErr = FALSE
    /\ UpIdle
    /\ pc = "deploy"
    /\ i = 0
    /\ remaining = Keys
    /\ order = <<>>
    /\ sending = NoKey
    /\ closes = 0
    /\ wgCounter = 0
    /\ wgWaiters = 0
    /\ wpc = [w \in Workers |-> "none"]
    /\ cur = [w \in Workers |-> NoKey]
    /\ wlog = [w \in Workers |-> <<>>]
    /\ mlog = <<>>
    /\ mnames = <<>>
    /\ buildLog = <<>>
    /\ failedCmds = {}
    /\ exitStatus = 0
    /\ index = [w \in Workers |-> -1]
    /\ printed = [w \in Workers |-> {}]
    /\ invocations = <<>>
    /\ rbResult = "pending"
    /\ ParseIdle /\ ZipIdle /\ WatchIdle

NextDeploy == RunDeploy \/ DeployOne \/ DeployLoopEnds

DeploySpec == InitDeploy /\ [][NextDeploy]_vars

\* ------------------------------------------------------ parseMap on its own
commandVars ==
    <<mainVars, workerVars, wgVars, inputVars, callerVars, failedCmds,
      exitStatus>>

\* no command of the dispatcher, of up or of deploy runs
CommandsIdle ==
    /\ functions = [k \in Keys |-> [SkipBuild |-> FALSE, Language |-> "node"]]
    /\ queueDepth = 1
    /\ opts = DefaultOptions
    /\ yamlOutcome = "none"
    /\ pullErr = FALSE
    /\ flags = NoFlags
    /\ pc = "idle"
    /\ i = 0
    /\ remaining = Keys
    /\ order = <<>>
    /\ sending = NoKey
    /\ closes = 0
    /\ wgCounter = 0
    /\ wgWaiters = 0
    /\ wpc = [w \in Workers |-> "none"]
    /\ cur = [w \in Workers |-> NoKey]
    /\ wlog = [w \in Workers |-> <<>>]
    /\ mlog = <<>>
    /\ mnames = <<>>
    /\ buildLog = <<>>
    /\ failedCmds = {}
    /\ exitStatus = 0
    /\ index = [w \in Workers |-> -1]
    /\ printed = [w \in Workers |-> {}]
    /\ invocations = <<>>
    /\ rbResult = "pending"
    /\ UpIdle
    /\ deployFlags = DefaultDeployFlags /\ yamlGateway = ""
    /\ DeployIdle("none")

\* the entries of a --env, --label or --build-arg list: every text of up to
\* MaxEntryLen characters over a letter, a digit, the separator and a space
EntryChars == {"A", "1", "=", " "}

Entries == UNION {[1..n -> EntryChars] : n \in 0..MaxEntryLen}

EntryLists ==
    {<<>>} \cup {<<a>> : a \in Entries} \cup {<<a, b>> : a, b \in Entries}

InitParse ==
    /\ parseInput \in EntryLists
    /\ parseOutput = NoParse
    /\ ZipIdle /\ WatchIdle /\ CommandsIdle

\* deploy.go:242-259 (called at build.go:82, deploy.go:165 and 288)
ApplyParseMap ==
    /\ parseOutput = NoParse
    /\ parseOutput' = parseMap(parseInput)
    /\ UNCHANGED <<parseInput, zipVars, watchVars, commandVars>>

ParseSpec == InitParse /\ [][ApplyParseMap]_vars

\* ------------------------------------------------- up --watch, the watcher
\* fsnotify.Op is a bit mask with one bit per operation: a value of the
\* type is the set of its bits, and & is the intersection
OpBits == {"Create", "Write", "Remove", "Rename", "Chmod"}

EventOps == (SUBSET OpBits) \ {{}}

\* fetch_templates.go:343  ignoredSuffixes: "~", "build", ".git", "template"
ignoredSuffixes ==
    {<<"~">>, <<"b", "u", "i", "l", "d">>, <<".", "g", "i", "t">>,
     <<"t", "e", "m", "p", "l", "a", "t", "e">>}

\* the paths of the events: a source file, an editor backup, the build and
\* template folders, a path inside .git, and a name with ~ at its start
EventNames ==
    {<<"a", ".", "g", "o">>, <<"a", ".", "g", "o", "~">>,
     <<"b", "u", "i", "l", "d">>, <<"x", "/", ".", "g", "i", "t">>,
     <<"t", "e", "m", "p", "l", "a", "t", "e">>, <<"~", "a">>}

\* strings.HasSuffix
HasSuffix(s, suffix) ==
    /\ Len(s) >= Len(suffix)
    /\ SubSeq(s, Len(s) - Len(suffix) + 1, Len(s)) = suffix

\* fetch_templates.go:454-461  skipIgnoredSuffix
skipIgnoredSuffix(name) ==
    \E ignoredSuffix \in ignoredSuffixes : HasSuffix(name, ignoredSuffix)

\* fetch_templates.go:371-372  switch event.Op & fsnotify.Write
\* { case fsnotify.Create, fsnotify.Write: ... }
SwitchCaseTaken(op) == (op \cap {"Write"}) \in {{"Create"}, {"Write"}}

\* fetch_templates.go:361-381  the watcher goroutine takes one event from
\* watcher.Events
WatchEvent ==
    /\ wcount < MaxEvents
    /\ \E op \in EventOps, name \in EventNames :
        LET call == ~skipIgnoredSuffix(name) /\ SwitchCaseTaken(op)
        IN  /\ lastEvent' = [Op |-> op, Name |-> name, debounced |-> call]
            /\ wcount' = wcount + 1
            /\ scheduled' = IF call THEN scheduled + 1 ELSE scheduled
            /\ timerArmed' = (call \/ timerArmed)
    /\ UNCHANGED <<buildCount, parseVars, zipVars, commandVars>>

\* fetch_templates.go:373-379  the delay of the debouncer has passed without
\* a new call: the function runs, it counts the build and calls doUp
DebounceFires ==
    /\ timerArmed
    /\ timerArmed' = FALSE
    /\ buildCount' = buildCount + 1
    /\ UNCHANGED <<wcount, lastEvent, scheduled, parseVars, zipVars,
                   commandVars>>

InitWatch == WatchIdle /\ ParseIdle /\ ZipIdle /\ CommandsIdle

NextWatch == WatchEvent \/ DebounceFires

WatchSpec == InitWatch /\ [][NextWatch]_vars

\* --------------------------------- fetchTemplates, expandTemplatesFromZip
\* A path is the sequence of its parts between the "/" characters, as
\* strings.Split gives them: a path that ends in "/" has "" as its last part.
\* An archive is the list of its entries in archive order; an entry has the
\* name z.Name and the step of its extraction that fails, if one does.
ArchiveRoot == "faas-cli-master"

TemplateLanguages == {"node", "python"}

LanguageEntries(l) ==
    <<<<ArchiveRoot, "template", l, "">>,
      <<ArchiveRoot, "template", l, "Dockerfile">>,
      <<ArchiveRoot, "template", l, "function", "">>,
      <<ArchiveRoot, "template", l, "function", "handler">>>>

\* the archive of a repository master: every folder has an entry of its
\* own in front of the entries of its content
ArchiveNames(first, second) ==
    <<<<ArchiveRoot, "">>, <<ArchiveRoot, "README.md">>,
      <<ArchiveRoot, "template", "">>>>
    \o LanguageEntries(first) \o LanguageEntries(second)

FailureModes == {"open", "mkdir", "write"}

ZipEntry(name, fails) == [Name |-> name, fails |-> fails]

\* the archives: the two orders of the languages, no failing entry or one
Archives ==
    {[n \in DOMAIN names |->
         ZipEntry(names[n], IF n = pos THEN mode ELSE "none")] :
        names \in {ArchiveNames("node", "python"), ArchiveNames("python", "node")},
        pos \in 0..Len(ArchiveNames("node", "python")),
        mode \in FailureModes}

\* fetch_templates.go:85  relativePath := z.Name[strings.Index(z.Name, "/")+1:]
RelativePath(name) == IF Len(name) > 1 THEN Tail(name) ELSE name

\* fetch_templates.go:86  strings.Index(relativePath, "template/") == 0
InTemplate(relativePath) ==
    Len(relativePath) > 1 /\ relativePath[1] = "template"

\* filepath.Dir of a path: the path without its last part
Dir(relativePath) == SubSeq(relativePath, 1, Len(relativePath) - 1)

\* os.Stat(templateDirectory + language) finds a directory
TemplateDirExists(language) ==
    \/ language \in preExisting
    \/ \E p \in written : Len(p) > 1 /\ p[1] = "template" /\ p[2] = language

\* fetch_templates.go:256-263  templateFolderExists: true when the language
\* may be written
templateFolderExists(language) == ~(TemplateDirExists(language) /\ ~overwrite)

\* fetch_templates.go:242-253  canWriteLanguage: the answer, remembered in
\* the map when the language is looked up for the first time
canWriteLanguage(language) ==
    IF language = "" THEN FALSE
    ELSE IF language \in DOMAIN availableLanguages
    THEN availableLanguages[language]
    ELSE templateFolderExists(language)

Remember(language) ==
    IF language = "" \/ language \in DOMAIN availableLanguages
    THEN availableLanguages
    ELSE [l \in DOMAIN availableLanguages \cup {language} |->
             IF l = language THEN templateFolderExists(language)
             ELSE availableLanguages[l]]

\* fetch_templates.go:137-159  canExpandTemplateData
canExpandTemplateData(relativePath) ==
    IF Len(relativePath) > 2
    THEN LET language == relativePath[2]
             isDirectory == relativePath[Len(relativePath)] = ""
         IN  IF Len(relativePath) = 3 /\ isDirectory
             THEN [action |-> IF canWriteLanguage(language)
                              THEN "NewTemplateFound"
                              ELSE "DirectoryAlreadyExists",
                   language |-> language, isDirectory |-> isDirectory]
             ELSE [action |-> IF canWriteLanguage(language)
                              THEN "ShouldExtractData"
                              ELSE "SkipWritingData",
                   language |-> language, isDirectory |-> isDirectory]
    ELSE [action |-> "SkipWritingData", language |-> "", isDirectory |-> TRUE]

\* fetch_templates.go:44-48 and 77-80  the archive cannot be fetched, or
\* zip.OpenReader cannot open it
FetchFails ==
    /\ zresult = "pending" /\ fetchResult = "pending" /\ zpos = 0
    /\ \E step \in {"fetchMasterZip", "OpenReader"} :
        /\ zresult' = IF step = "OpenReader" THEN "error" ELSE "not called"
        /\ fetchResult' = "error"
    /\ UNCHANGED <<archive, preExisting, overwrite, zpos, availableLanguages,
                   existingLanguages, fetchedLanguages, written, zfailed>>
    /\ UNCHANGED <<parseVars, watchVars, commandVars>>

\* fetch_templates.go:82-128  one iteration of the loop over zipFile.File;
\* a break leaves the loop for the statements after it, which return nil
ExtractEntry ==
    /\ zresult = "pending" /\ zpos < Len(archive)
    /\ LET z == archive[zpos + 1]
           relativePath == RelativePath(z.Name)
           data == canExpandTemplateData(relativePath)
           expandFromZip == data.action \in {"ShouldExtractData", "NewTemplateFound"}
       IN  /\ zpos' = zpos + 1
           /\ IF ~InTemplate(relativePath)
              THEN UNCHANGED <<availableLanguages, existingLanguages,
                               fetchedLanguages, written, zfailed, zresult>>
              ELSE /\ availableLanguages' =
                         IF Len(relativePath) > 2 THEN Remember(data.language)
                         ELSE availableLanguages
                   /\ fetchedLanguages' =
                         IF z.fails = "write" /\ expandFromZip /\ ~data.isDirectory
                         THEN <<>>
                         ELSE IF data.action = "NewTemplateFound"
                         THEN Append(fetchedLanguages, data.language)
                         ELSE fetchedLanguages
                   /\ existingLanguages' =
                         IF z.fails = "write" /\ expandFromZip /\ ~data.isDirectory
                         THEN <<>>
                         ELSE IF data.action = "DirectoryAlreadyExists"
                         THEN Append(existingLanguages, data.language)
                         ELSE existingLanguages
                   /\ IF ~expandFromZip
                      THEN UNCHANGED <<written, zfailed, zresult>>
                      ELSE IF z.fails = "open"
                      THEN /\ zfailed' = zfailed \cup {zpos + 1}
                           /\ zresult' = "nil"
                           /\ UNCHANGED written
                      ELSE IF z.fails = "mkdir"
                      THEN /\ zfailed' = zfailed \cup {zpos + 1}
                           /\ zresult' = "nil"
                           /\ UNCHANGED written
                      ELSE IF data.isDirectory
                      THEN /\ written' = written \cup {Dir(relativePath)}
                           /\ UNCHANGED <<zfailed, zresult>>
                      ELSE IF z.fails = "write"
                      THEN /\ written' = written \cup {Dir(relativePath)}
                           /\ zresult' = "error"
                           /\ UNCHANGED zfailed
                      ELSE /\ written' = written \cup {Dir(relativePath), relativePath}
                           /\ UNCHANGED <<zfailed, zresult>>
    /\ UNCHANGED <<archive, preExisting, overwrite, fetchResult>>
    /\ UNCHANGED <<parseVars, watchVars, commandVars>>

\* fetch_templates.go:130-131  the loop is past the last entry
ExtractDone ==
    /\ zresult = "pending" /\ zpos = Len(archive)
    /\ zresult' = "nil"
    /\ UNCHANGED <<archive, preExisting, overwrite, zpos, availableLanguages,
                   existingLanguages, fetchedLanguages, written, zfailed,
                   fetchResult>>
    /\ UNCHANGED <<parseVars, watchVars, commandVars>>

\* fetch_templates.go:52-65  fetchTemplates after expandTemplatesFromZip: it
\* returns the error, or the result of removeArchive
FetchTemplatesReturns ==
    /\ zresult \in {"nil", "error"} /\ fetchResult = "pending"
    /\ IF zresult = "error"
       THEN fetchResult' = "error"
       ELSE \E removed \in {"nil", "error"} : fetchResult' = removed
    /\ UNCHANGED <<archive, preExisting, overwrite, zpos, availableLanguages,
                   existingLanguages, fetchedLanguages, written, zfailed,
                   zresult>>
    /\ UNCHANGED <<parseVars, watchVars, commandVars>>

\* fetchTemplates on an archive, with any set of languages on disk and
\* either value of the overwrite flag (the parameter of
\* expandTemplatesFromZip and the variable canExpandTemplateData reads hold
\* the same value)
InitZip ==
    /\ archive \in Archives
    /\ preExisting \in SUBSET TemplateLanguages
    /\ overwrite \in BOOLEAN
    /\ zpos = 0
    /\ availableLanguages = <<>>
    /\ existingLanguages = <<>> /\ fetchedLanguages = <<>>
    /\ written = {} /\ zfailed = {}
    /\ zresult = "pending" /\ fetchResult = "pending"
    /\ ParseIdle /\ WatchIdle /\ CommandsIdle

NextZip == FetchFails \/ ExtractEntry \/ ExtractDone \/ FetchTemplatesReturns

ZipSpec == InitZip /\ [][NextZip]_vars

\* a dispatch under any combination of the build options, over a manifest
\* whose functions all have to be built
InitOpt ==
    /\ opts \in OptionSets
    /\ functions = [k \in Keys |-> [SkipBuild |-> FALSE, Language |-> "node"]]
    /\ queueDepth \in 1..MaxParallel
    /\ yamlOutcome = "functions"
    /\ pullErr = FALSE
    /\ flags = NoFlags
    /\ pc = "launch"
    /\ i = 0
    /\ remaining = Keys
    /\ order = <<>>
    /\ sending = NoKey
    /\ closes = 0
    /\ wgCounter = 0
    /\ wgWaiters = 0
    /\ wpc = [w \in Workers |-> "none"]
    /\ cur = [w \in Workers |-> NoKey]
    /\ wlog = [w \in Workers |-> <<>>]
    /\ mlog = <<>>
    /\ mnames = <<>>
    /\ buildLog = <<>>
    /\ failedCmds = {}
    /\ exitStatus = 0
    /\ index = [w \in Workers |-> -1]
    /\ printed = [w \in Workers |-> {}]
    /\ invocations = <<>>
    /\ rbResult = "pending"
    /\ ParseIdle /\ ZipIdle /\ WatchIdle
    /\ UpIdle
    /\ deployFlags = DefaultDeployFlags /\ yamlGateway = ""
    /\ DeployIdle("none")

OptSpec == InitOpt /\ [][Next]_vars

\* ------------------------------------------------- vocabulary of the claims
IsSkipped(k) == functions[k].SkipBuild
IsEnqueued(k) == ~functions[k].SkipBuild
IsBuildable(k) == ~functions[k].SkipBuild /\ functions[k].Language # ""
IsMalformed(k) == ~functions[k].SkipBuild /\ functions[k].Language = ""

Visited == {order[n] : n \in 1..Len(order)}

\* the worker holds a dequeued descriptor (the Building state of a worker)
InBuilding(w) == wpc[w] \in {"start", "building", "built"}

\* positions of an event in the workers' output streams
Occurrences(e) ==
    UNION {{<<w, n>> : n \in {m \in DOMAIN wlog[w] : wlog[w][m] = e}} :
              w \in Workers}

Receivers(k) == {w \in Workers : Count(wlog[w], Event("start", k)) > 0}

IsPrefix(s, t) == Len(s) <= Len(t) /\ s = SubSeq(t, 1, Len(s))

Returned == pc = "returned"

\* C1: when build returns (parallel >= 1, no fatal build failure), every
\* function with SkipBuild=false and a non-empty Language is in the
\* BuildImage invocation log exactly once.
C1_BuiltExactlyOnce ==
    (Returned /\ queueDepth >= 1) =>
        \A k \in Keys : IsBuildable(k) => Count(buildLog, k) = 1

C1_Witness ==
    /\ Returned /\ queueDepth = 2
    /\ \A k \in Keys : IsBuildable(k)
    /\ Len(buildLog) = MaxFunctions

\* C2: every descriptor whose send completed was received by exactly one
\* worker, exactly once; a descriptor not sent was received by none.
C2_ReceivedByExactlyOneWorker ==
    \A k \in Keys :
        Cardinality(Occurrences(Event("start", k))) =
            IF k \in Visited /\ IsEnqueued(k) /\ sending # k THEN 1 ELSE 0

C2_Witness ==
    /\ queueDepth = 2
    /\ \A w \in Workers : Len(wlog[w]) > 0 /\ wlog[w][1].kind = "start"
    /\ \A k \in Keys : Cardinality(Receivers(k)) = 1

\* C3: build returns only after every launched worker has left its loop.
C3_ReturnsAfterAllWorkersExited ==
    Returned => \A w \in Workers : w < queueDepth => wpc[w] = "exited"

\* C4: when build returns nothing is in flight: no descriptor is being
\* sent, no worker holds one, and every enqueued descriptor has its "done"
\* marker (after BuildImage, or after the missing-language message).
C4_NoWorkInFlightAtReturn ==
    Returned =>
        /\ sending = NoKey
        /\ \A w \in Workers : ~InBuilding(w)
        /\ \A k \in Keys : IsEnqueued(k) =>
              /\ Cardinality(Occurrences(Event("done", k))) = 1
              /\ IsBuildable(k) => Count(buildLog, k) = 1

C4_Witness ==
    /\ Returned /\ queueDepth = 2
    /\ \A k \in Keys : IsEnqueued(k)
    /\ \E k \in Keys : IsMalformed(k)
    /\ \E k \in Keys : IsBuildable(k)

\* C5: with parallel >= 1 and every BuildImage call returning, fair
\* scheduling brings build to its return.
C5_EventuallyReturns == (queueDepth >= 1) => <>Returned

\* C6: a function with SkipBuild=true is never sent, never received and
\* never passed to BuildImage; the producer prints one "Skipping build"
\* notice for each such entry it visits, and goes on to the other entries
\* (the channel is closed only when no entry is left to visit).
SkippedVisited == SelectSeq(order, IsSkipped)

C6_SkippedNeverEnqueued ==
    /\ \A k \in Keys : IsSkipped(k) =>
          /\ sending # k
          /\ \A w \in Workers : cur[w] # k
          /\ Occurrences(Event("start", k)) = {}
          /\ Count(buildLog, k) = 0
    /\ mlog = [n \in 1..Len(SkippedVisited) |-> Event("skip", SkippedVisited[n])]
    /\ (pc = "send" \/ closed) => \A n \in 1..Len(order) :
          IsSkipped(order[n]) => Count(mlog, Event("skip", order[n])) = 1
    /\ closed => Visited = Keys

C6_Witness ==
    /\ Len(order) = MaxFunctions
    /\ IsSkipped(order[1])
    /\ \A n \in 2..Len(order) : IsBuildable(order[n])
    /\ Len(buildLog) = MaxFunctions - 1
    /\ Len(mlog) = 1

\* C7: a dequeued descriptor with an empty Language is never passed to
\* BuildImage and never ends the process; in the worker's output its
\* missing-language message is followed by its "done" marker (printed, or
\* the very next step of the worker), after which the worker is back at the
\* receive.
EndsWith(s, e) == Len(s) > 0 /\ s[Len(s)] = e

C7_EmptyLanguageIsNotBuilt ==
    /\ \A k \in Keys : functions[k].Language = "" =>
          /\ Count(buildLog, k) = 0
          /\ k \notin failedCmds
          /\ \A w \in Workers : Count(wlog[w], Event("build", k)) = 0
    /\ \A w \in Workers : \A n \in DOMAIN wlog[w] :
          wlog[w][n].kind = "nolang" =>
             IF n = Len(wlog[w])
             THEN wpc[w] = "built" /\ cur[w] = wlog[w][n].name
             ELSE wlog[w][n + 1] = Event("done", wlog[w][n].name)
    /\ \A w \in Workers : \A k \in Keys :
          (IsMalformed(k) /\ EndsWith(wlog[w], Event("done", k))) =>
              wpc[w] = "recv"

C7_Witness ==
    \E w \in Workers : \E k1, k2 \in Keys :
        /\ IsMalformed(k1) /\ IsBuildable(k2)
        /\ wlog[w] = <<Event("start", k1), Event("nolang", k1),
                       Event("done", k1), Event("start", k2),
                       Event("build", k2)>>

\* C8: the channel is closed at most once, exactly once when build
\* returns, only after the range loop visited every entry, and the
\* producer is never at a send once the channel is closed.
C8_ClosedOnceAfterLastSend ==
    /\ closes <= 1
    /\ Returned => closes = 1
    /\ closed => /\ remaining = {} /\ Visited = Keys
                 /\ sending = NoKey
                 /\ pc \notin {"launch", "range", "send"}

C8_Witness ==
    /\ closed /\ pc = "sleeping"
    /\ \A k \in Keys : IsEnqueued(k)
    /\ \E w \in Workers : wpc[w] = "building"

\* C9: once an external build command has failed the process has ended with
\* a non-zero status: build has not returned and never does, and nothing
\* changes any more: no queued descriptor is dequeued or built, no sibling
\* build completes.
C9_FatalBuildFailureEndsProcess ==
    /\ [](failedCmds # {} => exitStatus # 0 /\ ~Returned)
    /\ [][failedCmds # {} => UNCHANGED vars]_vars

C9_Witness ==
    /\ failedCmds # {} /\ exitStatus # 0
    /\ queueDepth = 2
    /\ \E w \in Workers : wpc[w] = "building" /\ cur[w] \notin failedCmds

\* C10: with parallel = 1 at most one descriptor is held by a worker at any
\* time and the BuildImage invocations follow the order in which the range
\* loop visited the entries, restricted to the buildable ones.
C10_SequentialOrderWithOneWorker ==
    queueDepth = 1 =>
        /\ Cardinality({w \in Workers : InBuilding(w)}) <= 1
        /\ IsPrefix(buildLog, SelectSeq(order, IsBuildable))
        /\ Returned => buildLog = SelectSeq(order, IsBuildable)

C10_Witness ==
    /\ queueDepth = 1 /\ Returned
    /\ Len(buildLog) = MaxFunctions
    /\ buildLog[1] > buildLog[2]

\* C11: each worker's own stream is a sequence of complete units
\* "start k", then the BuildImage call for k (or the missing-language
\* message), then "done k": no start marker and no second BuildImage call
\* of that worker comes between a function's start and done markers, and
\* only the last unit may be unfinished.
UnitStep(e, f) ==
    \/ e.kind = "start" /\ f.kind \in {"build", "nolang"} /\ f.name = e.name
    \/ e.kind \in {"build", "nolang"} /\ f = Event("done", e.name)
    \/ e.kind = "done" /\ f.kind \in {"start", "workerdone"}

C11_WorkerBuildsSequentially ==
    \A w \in Workers :
        /\ Len(wlog[w]) > 0 => wlog[w][1].kind \in {"start", "workerdone"}
        /\ \A n \in 1..(Len(wlog[w]) - 1) : UnitStep(wlog[w][n], wlog[w][n + 1])
        /\ wpc[w] = "building" => EndsWith(wlog[w], Event("build", cur[w]))
        /\ Cardinality({n \in DOMAIN wlog[w] : wlog[w][n].kind = "build"})
              <= Cardinality({n \in DOMAIN wlog[w] : wlog[w][n].kind = "done"}) + 1

C11_Witness ==
    \E w \in Workers : \E k1, k2 \in Keys :
        /\ k1 # k2
        /\ wlog[w] = <<Event("start", k1), Event("build", k1),
                       Event("done", k1), Event("start", k2),
                       Event("build", k2), Event("done", k2)>>

\* C19: the channel is unbuffered.  A descriptor the producer has dequeued
\* from the map and not skipped is either the one it is blocked sending or
\* has been received by a worker, so at most one descriptor is undelivered;
\* a worker holds at most one descriptor, so at most queueDepth functions
\* are being built; and the send completes in the very step in which a
\* worker that was at its receive takes the descriptor.
Undelivered ==
    Cardinality({k \in Visited : IsEnqueued(k)})
        - Cardinality({k \in Keys : Receivers(k) # {}})

HandoffStep ==
    (pc = "send" /\ pc' # "send") =>
        \E w \in Workers :
            /\ wpc[w] = "recv" /\ wpc'[w] = "start"
            /\ cur'[w] = sending
            /\ sending' = NoKey

C19_UnbufferedHandoff ==
    /\ [](/\ Undelivered \in {0, 1}
          /\ Undelivered = 1 <=> pc = "send"
          /\ pc = "send" <=> sending # NoKey
          /\ pc = "send" => IsEnqueued(sending) /\ Receivers(sending) = {}
          /\ Cardinality({w \in Workers : InBuilding(w)}) <= queueDepth)
    /\ [][HandoffStep]_vars

C19_Witness ==
    /\ queueDepth = 1
    /\ pc = "send"
    /\ \E w \in Workers : InBuilding(w) /\ cur[w] # sending

\* C14: exactly queueDepth workers are launched, all of them before the
\* producer visits (and so before it sends) its first descriptor; every
\* launched worker has an index in 0..queueDepth-1 that no other worker
\* has, that never changes, and that is the only index it ever prints.
Launched == {w \in Workers : wpc[w] # "none"}

IndexStable == \A w \in Launched : index'[w] = index[w]

C14_ExactlyParallelWorkersBeforeFirstSend ==
    /\ [](/\ pc = "launch" =>
                /\ Launched = {w \in Workers : w < i}
                /\ i <= queueDepth
                /\ order = <<>> /\ sending = NoKey
                /\ \A w \in Workers : wlog[w] = <<>>
          /\ pc # "launch" => Cardinality(Launched) = queueDepth
          /\ \A w \in Launched : index[w] \in 0..(queueDepth - 1)
          /\ \A v, w \in Launched : v # w => index[v] # index[w]
          /\ \A w \in Workers :
                /\ printed[w] \subseteq {index[w]}
                /\ (wlog[w] # <<>>) => (w \in Launched /\ printed[w] = {index[w]}))
    /\ [][IndexStable]_vars

C14_Witness ==
    /\ queueDepth = MaxParallel
    /\ \A w \in Workers : printed[w] = {w} /\ Len(wlog[w]) >= 2

\* C12: build runs only with queueDepth >= 1, and the producer is never
\* blocked at the send of a descriptor while no worker exists.
InBuild ==
    pc \in {"launch", "range", "send", "wait", "sleeping", "woken", "returned"}

C12_BuildOnlyWithPositiveDepth ==
    /\ InBuild => queueDepth >= 1
    /\ (pc = "send" /\ queueDepth < 1) => Launched # {}

\* C13 as stated: in single-function mode a missing image, handler, name or
\* language makes runBuild return an error without calling BuildImage.
SingleMode == yamlOutcome \in {"none", "empty"}

C13_MissingFlagOrLanguageIsAnError ==
    (SingleMode /\ \E f \in DOMAIN flags : flags[f] = "") =>
        /\ invocations = <<>>
        /\ rbResult \in {"pending"} \cup
               {"error: " \o s : s \in {"templates", "image", "handler", "name"}}

\* C13: in single-function mode a missing image, handler or name makes
\* runBuild return an error without calling BuildImage; the language is
\* not checked, and when only the language is missing BuildImage is called
\* with the empty language.
C13_MissingFlagIsAnError ==
    SingleMode =>
        /\ (\E f \in {"image", "handler", "functionName"} : flags[f] = "") =>
              /\ invocations = <<>>
              /\ pc \in {"runBuild", "rbReturned"}
              /\ rbResult \in {"pending"} \cup
                     {"error: " \o s : s \in {"templates", "image", "handler", "name"}}
              /\ pc = "rbReturned" => rbResult # "pending"
        /\ (invocations # <<>>) =>
              /\ ~pullErr
              /\ invocations = <<BuildImageArgs(flags.image, flags.handler,
                                      flags.functionName, flags.language)>>

C13_Witness ==
    /\ SingleMode /\ ~pullErr
    /\ flags.image # "" /\ flags.handler = ""
    /\ rbResult = "error: handler"
    /\ invocations = <<>>

\* C20: every BuildImage call of a dispatch is handed the key, Image,
\* Handler and Language of the descriptor the worker dequeued and the
\* values of nocache, squash, shrinkwrap and buildArgMap; no step of the
\* producer or of a worker changes these options, so every call gets the
\* values they had when build was called.
C20_SameOptionsForEveryBuild ==
    /\ [](/\ Len(invocations) = Len(buildLog)
          /\ \A n \in DOMAIN invocations :
                LET k == buildLog[n]
                    r == invocations[n]
                IN  /\ r.functionName = k
                    /\ r.image = Image(k)
                    /\ r.handler = Handler(k)
                    /\ r.language = functions[k].Language
                    /\ r.nocache = opts.nocache
                    /\ r.squash = opts.squash
                    /\ r.shrinkwrap = opts.shrinkwrap
                    /\ r.buildArgMap = opts.buildArgMap)
    /\ [][opts' = opts]_vars

C20_Witness ==
    /\ opts.nocache /\ ~opts.squash /\ opts.buildArgMap # <<>>
    /\ Len(invocations) = MaxFunctions
    /\ \E m, n \in DOMAIN invocations : invocations[m].image # invocations[n].image

\* C15: doUp calls its stages in the order build, push, deploy.  push is
\* called only with --skip-push unset and after runBuild returned nil;
\* deploy is called only with --skip-deploy unset and after every stage
\* called before it returned nil; nothing is called after a stage returned
\* an error.
Called(stage) == \E n \in DOMAIN stages : stages[n] = StageEvent(stage, "call")

ReturnedNil(stage) == \E n \in DOMAIN stages : stages[n] = StageEvent(stage, "nil")

StageRank(stage) == CASE stage = "build" -> 1 [] stage = "push" -> 2 [] OTHER -> 3

C15_UpStagesInOrder ==
    /\ \A n \in DOMAIN stages :
          /\ stages[n].event = "error" => n = Len(stages)
          /\ stages[n].event = "call" =>
                \A m \in 1..(n - 1) :
                    /\ StageRank(stages[m].stage) < StageRank(stages[n].stage)
                    /\ stages[m].event = "call" =>
                          \E l \in (m + 1)..(n - 1) :
                              stages[l] = StageEvent(stages[m].stage, "nil")
    /\ Called("push") => ~skipPush /\ ReturnedNil("build") /\ rbResult = "nil"
    /\ Called("deploy") =>
          /\ ~skipDeploy
          /\ ReturnedNil("build") /\ rbResult = "nil"
          /\ Called("push") => ReturnedNil("push")
          /\ ~skipPush => ReturnedNil("push")
    /\ upStage = "push" => Called("push") /\ ~Called("deploy")
    /\ upStage = "deploy" => Called("deploy")
    /\ rbResult = "pending" => ~Called("push") /\ ~Called("deploy")

C15_Witness ==
    /\ yamlOutcome = "functions"
    /\ stages = <<StageEvent("build", "call"), StageEvent("build", "nil"),
                  StageEvent("push", "call"), StageEvent("push", "nil"),
                  StageEvent("deploy", "call"), StageEvent("deploy", "nil")>>
    /\ upResult = "nil"
    /\ Len(buildLog) > 0

\* C16: whenever --update and --replace are both true, runDeploy prints
\* the conflict message and returns; it never reads the manifest and never
\* calls proxy.DeployFunction.
C16_ReplaceUpdateConflict ==
    (deployFlags.update /\ deployFlags.replace) =>
        /\ deployCount = 0 /\ lastDeploy = NoDeploy
        /\ ~manifestRead
        /\ dpc \in {"runDeploy", "dReturned"}
        /\ dpc = "dReturned" => dlog = <<"conflict">>
        /\ dpc = "runDeploy" => dlog = <<>>
        /\ exitStatus = 0

C16_Witness ==
    /\ deployFlags.update /\ deployFlags.replace
    /\ yamlOutcome = "functions"
    /\ dpc = "dReturned" /\ dlog = <<"conflict">>

\* C17: the gateway URL of a manifest deployment is the value of --gateway
\* whenever the flag is supplied, otherwise the manifest's provider gateway
\* when it is not empty, otherwise the default.
DocumentedGateway ==
    IF deployFlags.gateway.given THEN deployFlags.gateway.value
    ELSE IF yamlGateway # "" THEN yamlGateway
    ELSE defaultGateway

C17_GatewayPriority ==
    /\ (manifestRead /\ exitStatus = 0) => gatewayURL = DocumentedGateway
    /\ (lastDeploy # NoDeploy /\ yamlOutcome = "functions") =>
          lastDeploy.gateway = DocumentedGateway

\* C18: the environment sent for a deployed function holds, for every key,
\* the value of --env if the key is given there, otherwise the value of the
\* last environment file that defines the key, otherwise the inline value
\* of the manifest; its keys are the union of the keys of the three sources.
Defining(files, key) == {n \in DOMAIN files : key \in DOMAIN files[n].Environment}

LastDefining(files, key) ==
    CHOOSE n \in Defining(files, key) : \A m \in Defining(files, key) : m <= n

C18_EnvironmentPriority ==
    (lastDeploy # NoDeploy) =>
        LET cli == parseMap(deployFlags.envvarOpts).map
            files == lastDeploy.files
            inline == lastDeploy.inline
            env == lastDeploy.env
        IN  /\ DOMAIN env =
                  DOMAIN cli \cup DOMAIN inline
                  \cup UNION {DOMAIN files[n].Environment : n \in DOMAIN files}
            /\ \A key \in DOMAIN env :
                  env[key] =
                      IF key \in DOMAIN cli THEN cli[key]
                      ELSE IF Defining(files, key) # {}
                      THEN files[LastDefining(files, key)].Environment[key]
                      ELSE inline[key]

C18_Witness ==
    /\ lastDeploy # NoDeploy
    /\ deployFlags.envvarOpts = <<<<"B", "=", "c">>>>
    /\ Len(lastDeploy.files) = 2
    /\ DOMAIN lastDeploy.inline = EnvKeys
    /\ \A n \in {1, 2} : DOMAIN lastDeploy.files[n].Environment = EnvKeys
    /\ lastDeploy.env = [k \in EnvKeys |-> IF k = <<"A">> THEN <<"2">> ELSE <<"c">>]

\* C21: when the manifest yields functions and build is reached, the only
\* value runBuild returns is nil, and it returns it after build returned,
\* however many functions were skipped or had an empty Language; no
\* outcome of a function reaches the caller as an error value.
C21_RunBuildReturnsNilAfterBuild ==
    (yamlOutcome = "functions") =>
        /\ rbResult \in {"pending", "nil", "error: templates"}
        /\ rbResult = "error: templates" => pullErr /\ pc = "rbReturned"
        /\ InBuild => rbResult \in {"pending", "nil"}
        /\ rbResult = "nil" => Returned

C21_Witness ==
    /\ yamlOutcome = "functions" /\ queueDepth >= 1
    /\ rbResult = "nil"
    /\ \E k \in Keys : IsSkipped(k)
    /\ \E k \in Keys : IsMalformed(k)
    /\ buildLog = <<>>

\* C26: every progress line and every BuildImage call names a function by
\* its manifest key: the markers of a worker carry the key of the entry it
\* received, the BuildImage name argument is the key of the entry built,
\* and every "Skipping build of" notice carries the key of the entry that
\* is skipped.
C26_NamedByManifestKey ==
    /\ \A w \in Workers : \A n \in DOMAIN wlog[w] :
          wlog[w][n].kind \in {"start", "build", "nolang", "done"} =>
              wlog[w][n].name \in Visited
    /\ \A w \in Workers : InBuilding(w) => EndsWith(wlog[w], Event("start", cur[w]))
                                          \/ EndsWith(wlog[w], Event("build", cur[w]))
                                          \/ EndsWith(wlog[w], Event("nolang", cur[w]))
    /\ \A n \in DOMAIN invocations : invocations[n].functionName = buildLog[n]
    /\ Len(mnames) = Len(mlog)
    /\ \A n \in DOMAIN mlog : mnames[n] = mlog[n].name

\* C25: in a multi-function deploy the constraints handed to
\* proxy.DeployFunction depend only on the function and on the --constraint
\* flags: the function's own constraints when the manifest gives it some,
\* else the values of the flag, whatever was deployed before it.
ConstraintFlagValues == <<"flag">>

C25_ConstraintsDependOnFunctionOnly ==
    (yamlOutcome = "functions" /\ lastDeploy # NoDeploy) =>
        lastDeploy.constraints =
            IF FunctionConstraints(lastDeploy.name) # <<>>
            THEN FunctionConstraints(lastDeploy.name)
            ELSE ConstraintFlagValues

\* C24: parseMap is all or nothing and never crashes: a list with a
\* malformed entry (no "=", empty name or empty value) gives an error and
\* the nil map; any other list gives the map in which every name has the
\* value of the last entry with that name, the value being the text after
\* the first "=" (names and values as they stand in the trimmed entry).
HasSeparator(entry) == \E n \in DOMAIN entry : entry[n] = "="

NameOf(entry) == SplitN2(TrimSpace(entry))[1]

ValueOf(entry) == SplitN2(TrimSpace(entry))[2]

Malformed(entry) ==
    \/ ~HasSeparator(entry)
    \/ NameOf(entry) = <<>>
    \/ ValueOf(entry) = <<>>

C24_ParseMapAllOrNothing ==
    (parseOutput # NoParse) =>
        /\ parseOutput.err # "panic"
        /\ IF \E n \in DOMAIN parseInput : Malformed(parseInput[n])
           THEN parseOutput.err = "error" /\ parseOutput.map = <<>>
           ELSE /\ parseOutput.err = "nil"
                /\ DOMAIN parseOutput.map =
                      {NameOf(parseInput[n]) : n \in DOMAIN parseInput}
                /\ \A n \in DOMAIN parseInput :
                      (\A m \in DOMAIN parseInput :
                           m > n => NameOf(parseInput[m]) # NameOf(parseInput[n]))
                      => parseOutput.map[NameOf(parseInput[n])]
                             = ValueOf(parseInput[n])

\* C23: in watch mode the handler calls debounced(...) for every event
\* whose operation is Create or Write on a path without an ignored suffix,
\* and for no event on a path with an ignored suffix.
IsCreateOrWrite(op) == "Create" \in op \/ "Write" \in op

C23_CreateOrWriteSchedulesUp ==
    (wcount > 0) =>
        /\ skipIgnoredSuffix(lastEvent.Name) => ~lastEvent.debounced
        /\ (~skipIgnoredSuffix(lastEvent.Name) /\ IsCreateOrWrite(lastEvent.Op))
              => lastEvent.debounced

\* C27: when the extraction of an entry fails because the entry cannot be
\* opened or its parent directory cannot be created,
\* expandTemplatesFromZip returns an error and fetchTemplates hands it on:
\* neither reports success after the remaining entries were abandoned.
C27_ExtractionFailureIsReported ==
    (zfailed # {}) =>
        /\ zresult \in {"pending", "error"}
        /\ fetchResult \in {"pending", "error"}

InList(list, l) == \E n \in DOMAIN list : list[n] = l

\* C22: with overwrite false, expandTemplatesFromZip writes nothing under
\* template/<lang> for a language whose directory was there before the
\* extraction and, when it returns, has that language in the existing list;
\* every language whose root directory was extracted is in the fetched list.
C22_ExistingKeptAndReported ==
    /\ ~overwrite =>
          /\ \A p \in written : p[2] \notin preExisting
          /\ zresult = "nil" =>
                \A l \in preExisting : InList(existingLanguages, l)
    /\ zresult # "error" =>
          \A l \in TemplateLanguages :
              <<"template", l>> \in written => InList(fetchedLanguages, l)

====
